---- MODULE Spec2Model ----
(***************************************************************************)
(* planetary2d: SystemOfBodies (bodies_system.py), its iterator            *)
(* SystemOfBodiesIterator, and the record validation try_structure         *)
(* (data.py).                                                               *)
(*                                                                         *)
(* Numbers.  The program computes in IEEE double precision (2D vectors are *)
(* complex128).  The model computes on the integer grid: every quantity is *)
(* an integer, sums and products are exact, and the two operations that    *)
(* leave the grid (division, the modulus of a vector) round to the nearest *)
(* grid value, symmetrically in the sign, as the floating-point operations *)
(* round to the nearest representable value.  A 2D vector (complex number) *)
(* is a pair <<re, im>>.                                                    *)
(***************************************************************************)
EXTENDS Integers, Sequences, FiniteSets, TLC

\* ------------------------------------------------------------------ bounds
MaxBodies == 3      \* longest initial-condition record
MaxLimit == 3       \* largest step limit given to the constructor
MaxNextCalls == 5   \* calls of __next__ on one iterator that are recorded
MaxDirectCalls == 3 \* calls of the update methods made on the constructed system

\* -------------------------------------------------------------- arithmetic
Abs(a) == IF a < 0 THEN -a ELSE a

\* a / b rounded to the nearest integer, ties away from zero (b # 0)
RDiv(a, b) ==
    LET q == (2 * Abs(a) + Abs(b)) \div (2 * Abs(b))
    IN  IF (a < 0) = (b < 0) THEN q ELSE -q

\* largest r in lo..hi with r * r <= n (lo * lo <= n)
SqrtSearch(n, lo, hi) ==
    CHOOSE r \in lo..hi : r * r <= n /\ (r = hi \/ (r + 1) * (r + 1) > n)

\* the square root of n rounded to the nearest integer
RSqrt(n) ==
    LET r == SqrtSearch(n, 0, IF n < 46340 THEN n ELSE 46340)
    IN  IF n - r * r > r THEN r + 1 ELSE r

VAdd(u, v) == <<u[1] + v[1], u[2] + v[2]>>
VSub(u, v) == <<u[1] - v[1], u[2] - v[2]>>
VNeg(u) == <<-u[1], -u[2]>>
VScale(k, u) == <<k * u[1], k * u[2]>>
VDiv(u, k) == <<RDiv(u[1], k), RDiv(u[2], k)>>
\* np.abs of a complex number
VAbs(u) == RSqrt(u[1] * u[1] + u[2] * u[2])
Zero == <<0, 0>>

\* ------------------------------------------------- initial-condition records
\* A Python value is tagged with its type: a number (float or int), a string,
\* a list of values, or a dict (a function from keys to values).
Num(n) == [t |-> "num", n |-> n]
Str == [t |-> "str"]
Lst(s) == [t |-> "list", v |-> s]
Dict(f) == [t |-> "dict", f |-> f]
Vec(x, y) == Lst(<<Num(x), Num(y)>>)

POSITION == "position"
VELOCITY == "velocity"
MASS == "mass"
VEC_DIM == 2

IsNumber(val) == val.t = "num"

\* position / velocity: key present, a list, of length VEC_DIM, of numbers
IsVectorField(body, key) ==
    /\ key \in DOMAIN body.f
    /\ body.f[key].t = "list"
    /\ Len(body.f[key].v) = VEC_DIM
    /\ \A k \in 1..Len(body.f[key].v) : IsNumber(body.f[key].v[k])

\* one body of the record passes the structure test; a body that is a list or
\* a string contains no key, a body that is a number raises TypeError, which
\* try_structure catches: all three give False
BodyHasStructure(body) ==
    /\ body.t = "dict"
    /\ IsVectorField(body, POSITION)
    /\ IsVectorField(body, VELOCITY)
    /\ MASS \in DOMAIN body.f
    /\ IsNumber(body.f[MASS])

try_structure(dict_data) ==
    \A i \in 1..Len(dict_data) : BodyHasStructure(dict_data[i])

\* --------------------------------------------------------------------- units
\* The unit tables, restricted to the entries the model's arithmetic can hold.
T_UNITS == [secs |-> 1, mins |-> 60]
S_UNITS == [m |-> 1]
M_UNITS == [kg |-> 1, t |-> 1]
\* the gravitational constant in the units of the grid, as <<numerator,
\* denominator>>
G == <<1, 900>>

\* --------------------------------------------------------- SystemOfBodies
NumOf(val) == val.n
ComplexOf(lst) == <<NumOf(lst.v[1]), NumOf(lst.v[2])>>

\* HasZeroMass looking at the first body only
HasZeroMassFirstOnly(dict_data) ==
    Len(dict_data) > 0 /\ NumOf(dict_data[1].f[MASS]) = 0

\* the test of the parsing loop: some mass is zero
HasZeroMass(dict_data) ==
    \E i \in 1..Len(dict_data) : NumOf(dict_data[i].f[MASS]) = 0

\* SystemOfBodies.__init__: the constructed object, or the error raised
SystemOfBodies(dict_data, base_interval, time_units, space_units, mass_units, limit, no_hist) ==
    LET n == Len(dict_data)
        pos == [i \in 1..n |-> ComplexOf(dict_data[i].f[POSITION])]
    IN
    IF ~try_structure(dict_data)
    THEN [err |-> "ValidationError"]
    ELSE IF HasZeroMass(dict_data)
    THEN [err |-> "ValidationError"]
    ELSE IF \/ time_units \notin DOMAIN T_UNITS
            \/ space_units \notin DOMAIN S_UNITS
            \/ mass_units \notin DOMAIN M_UNITS
    THEN [err |-> "ConfigurationError"]
    ELSE [err |-> "none",
          sys |-> [b_num |-> n,
                   labels |-> [i \in 1..n |-> i],
                   pos |-> pos,
                   vel |-> [i \in 1..n |-> ComplexOf(dict_data[i].f[VELOCITY])],
                   mass |-> [i \in 1..n |-> NumOf(dict_data[i].f[MASS])],
                   acc |-> [i \in 1..n |-> Zero],
                   dt |-> base_interval,
                   t_units |-> T_UNITS[time_units],
                   s_units |-> S_UNITS[space_units],
                   m_units |-> M_UNITS[mass_units],
                   limit |-> limit,
                   no_hist |-> no_hist,
                   hist |-> IF no_hist = FALSE THEN <<pos>> ELSE <<>>]]

\* ------------------------------------------------------------ force assembly
Eye(i, j) == IF i = j THEN <<1, 0>> ELSE Zero

\* HasZeroEntry testing R without the identity added
HasZeroEntryNoEye(R, n) ==
    \E i \in 1..n : \E j \in 1..n : R[i][j] = Zero

\* two distinct bodies at one position: some entry of R + eye is zero
HasZeroEntry(R, n) ==
    \E i \in 1..n : \E j \in 1..n : VAdd(R[i][j], Eye(i, j)) = Zero

\* assemble_matrix_R with the difference of the lower triangle reversed
assemble_matrix_R_reversed(s) ==
    LET n == s.b_num
        L == [r \in 1..n |-> [i \in 1..n |->
                 IF r > i THEN VSub(s.pos[i], s.pos[r]) ELSE Zero]]
        R == [i \in 1..n |-> [j \in 1..n |-> VSub(L[i][j], L[j][i])]]
    IN  [err |-> HasZeroEntry(R, n), R |-> R]

\* __assemble_matrix_R: the lower triangle L[r][i] = pos[r] - pos[i] (r > i),
\* then R = L - transpose(L); raises when two bodies share a position
assemble_matrix_R(s) ==
    LET n == s.b_num
        L == [r \in 1..n |-> [i \in 1..n |->
                 IF r > i THEN VSub(s.pos[r], s.pos[i]) ELSE Zero]]
        R == [i \in 1..n |-> [j \in 1..n |-> VSub(L[i][j], L[j][i])]]
    IN  [err |-> HasZeroEntry(R, n), R |-> R]

\* the gravitational constant in the units of the system
G_units(s) ==
    RDiv(G[1] * s.m_units * s.t_units * s.t_units,
         G[2] * s.s_units * s.s_units * s.s_units)

\* assemble_matrix_K taking the mass of body i for both factors
assemble_matrix_K_one_mass(s, R) ==
    [i \in 1..s.b_num |-> [j \in 1..s.b_num |->
        LET R_ == VAbs(VAdd(R[i][j], Eye(i, j)))
        IN  RDiv(s.mass[i] * s.mass[i] * G_units(s), R_ * R_ * R_)]]

\* __assemble_matrix_K: K[i][j] = __G * m_i * m_j / |R[i][j] + eye|^3
assemble_matrix_K(s, R) ==
    [i \in 1..s.b_num |-> [j \in 1..s.b_num |->
        LET R_ == VAbs(VAdd(R[i][j], Eye(i, j)))
        IN  RDiv(s.mass[i] * s.mass[j] * G_units(s), R_ * R_ * R_)]]

\* RR * KK, the Hadamard product
Hadamard(RR, KK, n) ==
    [i \in 1..n |-> [j \in 1..n |-> VScale(KK[i][j], RR[i][j])]]

RECURSIVE SumRows(_, _, _, _)
\* F after adding FF[1, :], ..., FF[col, :] to zeros
SumRows(FF, n, col, j) ==
    IF col = 0 THEN Zero ELSE VAdd(SumRows(FF, n, col - 1, j), FF[col][j])

RECURSIVE SumColumns(_, _, _, _)
\* FF[i, 1] + ... + FF[i, col]
SumColumns(FF, n, col, i) ==
    IF col = 0 THEN Zero ELSE VAdd(SumColumns(FF, n, col - 1, i), FF[i][col])

\* assemble_array_F adding up each row of FF
assemble_array_F_rows(FF, n) == [i \in 1..n |-> SumColumns(FF, n, n, i)]

\* __assemble_array_F: F += FF[col, :] for every col
assemble_array_F(FF, n) == [j \in 1..n |-> SumRows(FF, n, n, j)]

\* the pairwise forces and the net forces of the configuration of s
ForceMatrix(s) ==
    LET RR == assemble_matrix_R(s).R
    IN  Hadamard(RR, assemble_matrix_K(s, RR), s.b_num)

NetForces(s) == assemble_array_F(ForceMatrix(s), s.b_num)

\* update_accelerations: raises (leaving s as it is) or overwrites s.acc
update_accelerations(s) ==
    IF assemble_matrix_R(s).err
    THEN [err |-> TRUE, sys |-> s]
    ELSE [err |-> FALSE,
          sys |-> [s EXCEPT !.acc = [j \in 1..s.b_num |->
                                        VDiv(NetForces(s)[j], s.mass[j])]]]

\* ---------------------------------------------------------------- integrator
\* update_positions appending no snapshot
update_positions_no_snapshot(s) ==
    [s EXCEPT !.pos = [i \in 1..s.b_num |->
                          VAdd(s.pos[i],
                               VAdd(VScale(s.dt, s.vel[i]),
                                    VDiv(VScale(s.dt * s.dt, s.acc[i]), 2)))]]

\* update_positions appending the live array itself: every snapshot it has
\* appended is that one array and shows the newest positions
update_positions_aliasing(s) ==
    LET pos == [i \in 1..s.b_num |->
                   VAdd(s.pos[i],
                        VAdd(VScale(s.dt, s.vel[i]),
                             VDiv(VScale(s.dt * s.dt, s.acc[i]), 2)))]
    IN  [s EXCEPT !.pos = pos,
                  !.hist = IF s.no_hist = FALSE
                           THEN [k \in 1..(Len(@) + 1) |->
                                    IF k = 1 THEN @[1] ELSE pos]
                           ELSE @]

\* update_positions: pos += vel * dt + (0.5 * dt^2) * acc, then the snapshot
update_positions(s) ==
    LET pos == [i \in 1..s.b_num |->
                   VAdd(s.pos[i],
                        VAdd(VScale(s.dt, s.vel[i]),
                             VDiv(VScale(s.dt * s.dt, s.acc[i]), 2)))]
    IN  [s EXCEPT !.pos = pos,
                  !.hist = IF s.no_hist = FALSE THEN Append(@, pos) ELSE @]

\* update_velocities with the acceleration assembled again at the new positions
update_velocities_recomputed(s) ==
    LET a == update_accelerations(s)
        acc == IF a.err THEN s.acc ELSE a.sys.acc
    IN  [s EXCEPT !.vel = [i \in 1..s.b_num |->
                              VAdd(s.vel[i], VScale(s.dt, acc[i]))]]

\* update_velocities counting the step off the limit
update_velocities_counting(s) ==
    [s EXCEPT !.vel = [i \in 1..s.b_num |->
                          VAdd(s.vel[i], VScale(s.dt, s.acc[i]))],
              !.limit = @ - 1]

\* update_velocities: vel += acc * dt
update_velocities(s) ==
    [s EXCEPT !.vel = [i \in 1..s.b_num |->
                          VAdd(s.vel[i], VScale(s.dt, s.acc[i]))]]

\* ------------------------------------------------- SystemOfBodiesIterator
\* StepTriad moving the bodies before the accelerations are assembled
StepTriadMoveFirst(s) ==
    LET p == update_positions(s)
        a == update_accelerations(p)
    IN  IF a.err THEN a
        ELSE [err |-> FALSE, sys |-> update_velocities(a.sys)]

\* the body of the else branch of __next__: the three updates in order; an
\* exception leaves the object as the updates before it have made it
StepTriad(s) ==
    LET a == update_accelerations(s)
    IN  IF a.err THEN a
        ELSE [err |-> FALSE, sys |-> update_velocities(update_positions(a.sys))]

\* IsExhausted ending the iteration one step early
IsExhaustedEarly(index, limit) == index + 1 >= limit

\* IsExhausted letting one more step through
IsExhaustedLate(index, limit) == index > limit

\* the test that ends the iteration
IsExhausted(index, limit) == index >= limit

\* copy.deepcopy of object ref: a new object with the same value
DeepCopy(h, ref) == [heap |-> Append(h, h[ref]), ref |-> Len(h) + 1]

\* IteratorSystem keeping the caller's object instead of a copy
IteratorSystemAlias(h, ref) == [heap |-> h, ref |-> ref]

\* SystemOfBodiesIterator.__init__: the object it keeps in system_of_bodies
IteratorSystem(h, ref) == DeepCopy(h, ref)

\* NextReturn handing out a fresh copy at every call
NextReturnCopy(h, ref) == DeepCopy(h, ref)

\* what __next__ returns after a step
NextReturn(h, ref) == [heap |-> h, ref |-> ref]

\* __len__
IteratorLen(h, iter) == h[iter.system_of_bodies].limit

\* -------------------------------------------------------------------- inputs
Body(p, v, m) ==
    Dict([position |-> Vec(p[1], p[2]), velocity |-> Vec(v[1], v[2]),
          mass |-> Num(m)])

\* well-formed bodies: two on a collision course, one off the axis carrying a
\* field the program ignores, one of negative mass; a record may hold the
\* same body twice, under two labels
ValidBodies ==
    { Body(<<0, 0>>, <<1, 0>>, 2),
      Body(<<2, 0>>, <<-1, 0>>, 3),
      Dict([position |-> Vec(1, 2), velocity |-> Vec(0, 0), mass |-> Num(3),
            color |-> Str]),
      Body(<<0, -2>>, <<0, 1>>, -1) }

MalformedBodies ==
    { Dict([velocity |-> Vec(0, 0), mass |-> Num(2)]),
      Dict([position |-> Vec(0, 0), mass |-> Num(2)]),
      Dict([position |-> Vec(0, 0), velocity |-> Vec(0, 0)]),
      Dict([position |-> Lst(<<Num(0), Num(0), Num(0)>>),
            velocity |-> Vec(0, 0), mass |-> Num(2)]),
      Dict([position |-> Vec(0, 0), velocity |-> Lst(<<Num(1)>>),
            mass |-> Num(2)]),
      Dict([position |-> Lst(<<Num(0), Str>>), velocity |-> Vec(0, 0),
            mass |-> Num(2)]),
      Dict([position |-> Vec(0, 0), velocity |-> Num(1), mass |-> Num(2)]),
      Dict([position |-> Vec(0, 0), velocity |-> Vec(0, 0), mass |-> Str]),
      Dict([position |-> Vec(0, 0), velocity |-> Vec(0, 0), mass |-> Num(0)]),
      Num(7) }

ValidRecords == UNION { [1..n -> ValidBodies] : n \in 0..MaxBodies }

\* the well-formed records, and each of them with one body replaced by a
\* malformed one
Records ==
    ValidRecords \cup
    UNION { { [r EXCEPT ![i] = bad] :
                i \in 1..Len(r), bad \in MalformedBodies } :
            r \in ValidRecords }

UnitNames ==
    { <<"secs", "m", "kg">>, <<"mins", "m", "t">>,
      <<"fortnights", "m", "kg">>, <<"secs", "miles", "kg">>,
      <<"mins", "m", "lb">> }

Intervals == {1, 2}

\* --------------------------------------------------------------------- state
VARIABLES
    heap,       \* the objects: heap[ref] is the value of SystemOfBodies ref
    it,         \* the iterator: system_of_bodies (a ref, 0 = no iterator), index
    returned,   \* the refs __next__ has returned, in order
    outcome,    \* how the last call ended
    lastOp,     \* the last call made
    results,    \* how each call of __next__ so far ended, in order
    args,       \* the arguments the constructor was called with
    pre,        \* the iterator's system and index when __next__ was last called
    snap,       \* the original system when the iterator was created
    direct,     \* calls of the update methods made on the constructed system
    tick        \* parity of the number of calls of __next__ made so far

vars == <<heap, it, returned, outcome, lastOp, results, args, pre, snap, direct,
          tick>>

NoIterator == [system_of_bodies |-> 0, index |-> 0]

Init ==
    /\ heap = <<>>
    /\ it = NoIterator
    /\ returned = <<>>
    /\ outcome = "none"
    /\ lastOp = "none"
    /\ results = <<>>
    /\ args = <<>>
    /\ pre = <<>>
    /\ snap = <<>>
    /\ direct = 0
    /\ tick = 0

\* x = SystemOfBodies(dict_data, base_interval, time_units, space_units,
\*                    mass_units, limit, no_hist)
Construct ==
    /\ lastOp = "none"
    /\ \E dict_data \in Records, base_interval \in Intervals,
          units \in UnitNames, limit \in 0..MaxLimit, no_hist \in BOOLEAN :
          LET r == SystemOfBodies(dict_data, base_interval, units[1], units[2],
                                  units[3], limit, no_hist)
          IN  /\ heap' = IF r.err = "none" THEN <<r.sys>> ELSE heap
              /\ outcome' = IF r.err = "none" THEN "ok" ELSE r.err
              /\ args' = [dict_data |-> dict_data, time_units |-> units[1],
                          space_units |-> units[2], mass_units |-> units[3]]
    /\ lastOp' = "init"
    /\ UNCHANGED <<it, returned, results, pre, snap, direct, tick>>

\* iter(x): SystemOfBodies.__iter__ and SystemOfBodiesIterator.__init__
IterCreate ==
    /\ Len(heap) > 0
    /\ it = NoIterator
    /\ LET c == IteratorSystem(heap, 1)
       IN  /\ heap' = c.heap
           /\ it' = [system_of_bodies |-> c.ref, index |-> 0]
    /\ snap' = heap[1]
    /\ outcome' = "ok"
    /\ lastOp' = "iter"
    /\ UNCHANGED <<returned, results, args, pre, direct, tick>>

\* next(it): SystemOfBodiesIterator.__next__
IterNext ==
    /\ it # NoIterator
    /\ LET ref == it.system_of_bodies
           s == heap[ref]
           r == StepTriad(s)
           h == [heap EXCEPT ![ref] = r.sys]
           ret == NextReturn(h, ref)
       IN  /\ pre' = [sys |-> s, index |-> it.index]
           /\ IF IsExhausted(it.index, s.limit)
              THEN /\ outcome' = "StopIteration"
                   /\ UNCHANGED <<heap, it, returned>>
              ELSE IF r.err
              THEN /\ outcome' = "GeometryError"
                   /\ heap' = h
                   /\ UNCHANGED <<it, returned>>
              ELSE /\ outcome' = "ok"
                   /\ heap' = ret.heap
                   /\ it' = [it EXCEPT !.index = @ + 1]
                   /\ returned' = Append(returned, ret.ref)
    /\ results' = IF Len(results) < MaxNextCalls
                  THEN Append(results, outcome')
                  ELSE results
    /\ lastOp' = "next"
    /\ tick' = 1 - tick
    /\ UNCHANGED <<args, snap, direct>>

Next == Construct \/ IterCreate \/ IterNext

Spec == Init /\ [][Next]_vars

\* a program that makes the iterator and keeps calling next(it): weak
\* fairness of IterCreate and of IterNext.  Every call of next(it) changes
\* tick, so ENABLED <<IterNext>>_vars is the guard of IterNext, written out
\* here
FairSpec ==
    /\ Spec
    /\ WF_vars(IterCreate)
    /\ (<>[](it # NoIterator) => []<><<IterNext>>_vars)

\* x.update_accelerations(), called by hand on the constructed system
UpdateAccelerations ==
    /\ Len(heap) > 0
    /\ direct < MaxDirectCalls
    /\ LET r == update_accelerations(heap[1])
       IN  /\ heap' = [heap EXCEPT ![1] = r.sys]
           /\ outcome' = IF r.err THEN "GeometryError" ELSE "ok"
    /\ lastOp' = "update_accelerations"
    /\ direct' = direct + 1
    /\ UNCHANGED <<it, returned, results, args, pre, snap, tick>>

\* x.update_positions()
UpdatePositions ==
    /\ Len(heap) > 0
    /\ direct < MaxDirectCalls
    /\ heap' = [heap EXCEPT ![1] = update_positions(heap[1])]
    /\ outcome' = "ok"
    /\ lastOp' = "update_positions"
    /\ direct' = direct + 1
    /\ UNCHANGED <<it, returned, results, args, pre, snap, tick>>

\* x.update_velocities()
UpdateVelocities ==
    /\ Len(heap) > 0
    /\ direct < MaxDirectCalls
    /\ heap' = [heap EXCEPT ![1] = update_velocities(heap[1])]
    /\ outcome' = "ok"
    /\ lastOp' = "update_velocities"
    /\ direct' = direct + 1
    /\ UNCHANGED <<it, returned, results, args, pre, snap, tick>>

\* the constructed system driven by hand, in any order of the three methods
NextDirect ==
    Construct \/ UpdateAccelerations \/ UpdatePositions \/ UpdateVelocities

SpecDirect == Init /\ [][NextDirect]_vars

\* ----------------------------------------------------------------- properties
\* the iterator's own system (defined once the iterator exists)
Working == heap[it.system_of_bodies]
HasIterator == it # NoIterator
Advances == Len(returned)
NoGeometryError == \A k \in 1..Len(results) : results[k] # "GeometryError"
\* two distinct bodies of s at one position
Coincide(s) ==
    \E i \in 1..s.b_num : \E j \in 1..s.b_num : i # j /\ s.pos[i] = s.pos[j]

\* C1: an iterator over a system of limit L that meets no geometry failure
\* advances exactly L times, its call L + 1 (and every later one) raises
\* StopIteration, its length is L, and with history on the iterator's system
\* then holds L + 1 snapshots; with L = 0 the first call raises StopIteration.
C1_SequenceBounds ==
    HasIterator =>
        LET L == snap.limit
        IN  /\ IteratorLen(heap, it) = L
            /\ NoGeometryError =>
                 /\ \A k \in 1..Len(results) :
                        results[k] = IF k <= L THEN "ok" ELSE "StopIteration"
                 /\ Len(results) > L =>
                      /\ Advances = L
                      /\ Working.no_hist = FALSE => Len(Working.hist) = L + 1

C1_Witness ==
    /\ HasIterator
    /\ snap.limit = 3
    /\ results = <<"ok", "ok", "ok", "StopIteration">>
    /\ Working.no_hist = FALSE
    /\ Working.b_num = 3

\* C2: creating an iterator and calling __next__ on it any number of times
\* leaves the system it was created from as it was before.
C2_OriginalUntouched ==
    HasIterator => heap[1] = snap

C2_Witness ==
    /\ HasIterator
    /\ \E k \in 1..Len(results) : results[k] = "ok"
    /\ outcome = "GeometryError"
    /\ Working.pos # heap[1].pos
    /\ Working.vel # heap[1].vel
    /\ heap[1] = snap

\* C3: a call of __next__ that fails with the geometry error leaves the
\* iterator's system (positions, velocities, accelerations, history) and the
\* index exactly as they were before the call.
C3_FailureKeepsPreStepState ==
    (lastOp = "next" /\ outcome = "GeometryError") =>
        /\ Working = pre.sys
        /\ it.index = pre.index
        /\ Coincide(pre.sys)

C3_Witness ==
    /\ lastOp = "next"
    /\ outcome = "GeometryError"
    /\ it.index = 1
    /\ Working.no_hist = FALSE
    /\ \E i \in 1..Working.b_num : Working.vel[i] # Zero

\* C4: with history on, the history has one snapshot per completed step plus
\* the initial one, in the constructed system and in the iterator's system
\* after any calls of __next__, failed and exhausted ones included.
C4_HistoryLength ==
    /\ (Len(heap) > 0 /\ ~HasIterator /\ heap[1].no_hist = FALSE) =>
           Len(heap[1].hist) = 1
    /\ (HasIterator /\ Working.no_hist = FALSE) =>
           /\ Len(Working.hist) = Advances + 1
           /\ Len(Working.hist) = it.index + 1

C4_Witness ==
    /\ HasIterator
    /\ Working.no_hist = FALSE
    /\ results = <<"ok", "ok", "GeometryError", "GeometryError">>
    /\ Len(Working.hist) = 3

\* C5: force assembly fails exactly when two distinct bodies share a position:
\* update_accelerations on any system the program holds, and the step of
\* __next__ that starts with it; a failed call fails again when repeated (the
\* positions being unchanged); a one-body system never fails.
C5_GeometryErrorIffCoincide ==
    /\ \A ref \in 1..Len(heap) :
           /\ update_accelerations(heap[ref]).err <=> Coincide(heap[ref])
           /\ update_accelerations(heap[ref]).err =>
                  update_accelerations(update_accelerations(heap[ref]).sys).err
           /\ heap[ref].b_num = 1 => ~update_accelerations(heap[ref]).err
    /\ (lastOp = "next" /\ pre.index < pre.sys.limit) =>
           (outcome = "GeometryError" <=> Coincide(pre.sys))
    /\ \A k \in 1..(Len(results) - 1) :
           results[k] = "GeometryError" => results[k + 1] = "GeometryError"

C5_Witness ==
    /\ HasIterator
    /\ Working.b_num = 3
    /\ Len(results) >= 2
    /\ results[Len(results)] = "GeometryError"
    /\ results[Len(results) - 1] = "GeometryError"
    /\ Working.pos[1] = Working.pos[3]
    /\ Working.pos[1] # Working.pos[2]

\* what the claim calls a malformed body
Malformed(body) ==
    \/ body.t # "dict"
    \/ \E key \in {POSITION, VELOCITY, MASS} : key \notin DOMAIN body.f
    \/ \E key \in {POSITION, VELOCITY} :
           \/ body.f[key].t # "list"
           \/ Len(body.f[key].v) # 2
           \/ \E k \in 1..Len(body.f[key].v) : body.f[key].v[k].t # "num"
    \/ body.f[MASS].t # "num"
    \/ body.f[MASS].n = 0

ValidUnitNames ==
    /\ args.time_units \in DOMAIN T_UNITS
    /\ args.space_units \in DOMAIN S_UNITS
    /\ args.mass_units \in DOMAIN M_UNITS

\* C6: the constructor raises the validation error and produces no system
\* when some body of the record lacks position, velocity or mass, has a
\* position or velocity that is not a list of two numbers, or a mass that is
\* not a number or is zero; a record of well-formed bodies of nonzero mass
\* (other fields allowed) with valid unit names gives a system.
C6_ValidationRejects ==
    lastOp # "none" =>
        LET d == args.dict_data
            bad == \E i \in 1..Len(d) : Malformed(d[i])
        IN  /\ bad => (outcome = "ValidationError" /\ heap = <<>>)
            /\ (~bad /\ ValidUnitNames) =>
                   /\ Len(heap) > 0
                   /\ heap[1].b_num = Len(d)
                   /\ lastOp = "init" => outcome = "ok"

C6_Witness ==
    /\ lastOp = "init"
    /\ outcome = "ValidationError"
    /\ heap = <<>>
    /\ ValidUnitNames
    /\ Len(args.dict_data) = 3
    /\ ~Malformed(args.dict_data[1])
    /\ ~Malformed(args.dict_data[2])
    /\ args.dict_data[3].t = "dict"
    /\ DOMAIN args.dict_data[3].f = {POSITION, MASS}

RECURSIVE MassWeightedSumTo(_, _)
\* mass[1] * acc[1] + ... + mass[k] * acc[k]
MassWeightedSumTo(s, k) ==
    IF k = 0 THEN Zero
    ELSE VAdd(MassWeightedSumTo(s, k - 1), VScale(s.mass[k], s.acc[k]))

RECURSIVE AbsMassSumTo(_, _)
AbsMassSumTo(s, k) ==
    IF k = 0 THEN 0 ELSE AbsMassSumTo(s, k - 1) + Abs(s.mass[k])

Stepped == lastOp = "next" /\ outcome = "ok"

C8_SameObjectReturned ==
    \A k \in 1..Len(returned) :
        /\ returned[k] = it.system_of_bodies
        /\ heap[returned[k]] = Working

C8_Witness ==
    /\ Len(returned) = 3
    /\ returned[1] = returned[3]
    /\ Len(heap[returned[1]].hist) = 4
    /\ heap[returned[1]].pos # pre.sys.pos

\* C9: once the index has reached the limit, every call of __next__ raises
\* StopIteration, returns nothing and changes neither the iterator's system
\* nor the index; the iterator stays exhausted.
C9_ExhaustedStays ==
    [][(HasIterator /\ it.index >= Working.limit) =>
          /\ it' = it
          /\ heap' = heap
          /\ returned' = returned
          /\ results' # results => outcome' = "StopIteration"]_vars

C9_Witness ==
    /\ HasIterator
    /\ Len(results) = 4
    /\ results = <<"ok", "ok", "StopIteration", "StopIteration">>
    /\ Working = pre.sys
    /\ it.index = 2

\* C10: a successful step computes the accelerations a of all bodies from the
\* positions before the step, moves every body to
\* pos + vel * dt + 0.5 * a * dt^2 with the velocity before the step, and sets
\* the velocity to vel + a * dt with that same a.
C10_StepIsTriad ==
    Stepped =>
        LET s == pre.sys
            a == update_accelerations(s).sys.acc
        IN  /\ ~update_accelerations(s).err
            /\ Working.acc = a
            /\ \A i \in 1..s.b_num :
                   /\ Working.pos[i] =
                          VAdd(s.pos[i],
                               VAdd(VScale(s.dt, s.vel[i]),
                                    VDiv(VScale(s.dt * s.dt, a[i]), 2)))
                   /\ Working.vel[i] = VAdd(s.vel[i], VScale(s.dt, a[i]))

C10_Witness ==
    /\ Stepped
    /\ Working.b_num >= 2
    /\ \E i \in 1..Working.b_num :
           /\ pre.sys.vel[i] # Zero
           /\ Working.acc[i] # Zero
    /\ ~update_accelerations(Working).err
    /\ update_accelerations(Working).sys.acc # Working.acc

\* the systems the program holds on which force assembly succeeds
Assembled == { ref \in 1..Len(heap) : ~Coincide(heap[ref]) }

RECURSIVE RowSumTo(_, _, _)
\* M[i][1] + ... + M[i][k]
RowSumTo(M, i, k) ==
    IF k = 0 THEN Zero ELSE VAdd(RowSumTo(M, i, k - 1), M[i][k])

RECURSIVE PullTo(_, _, _, _)
\* K[i][1] * (pos[1] - pos[i]) + ... + K[i][k] * (pos[k] - pos[i])
PullTo(s, K, i, k) ==
    IF k = 0 THEN Zero
    ELSE VAdd(PullTo(s, K, i, k - 1),
              VScale(K[i][k], VSub(s.pos[k], s.pos[i])))

AllMassesPositive(s) == \A i \in 1..s.b_num : s.mass[i] > 0

\* the coefficient of the pair (i, j) in the configuration of s
Coefficient(s, i, j) == assemble_matrix_K(s, assemble_matrix_R(s).R)[i][j]

\* u is a positive multiple of v
PositiveMultiple(u, v) ==
    /\ u[1] * v[2] = u[2] * v[1]
    /\ u[1] * v[1] + u[2] * v[2] > 0

\* a step of two bodies of positive mass whose attraction the grid resolves
TwoBodyStep ==
    /\ Stepped
    /\ pre.sys.b_num = 2
    /\ AllMassesPositive(pre.sys)
    /\ Coefficient(pre.sys, 1, 2) > 0

Frame(s) ==
    [b_num |-> s.b_num, labels |-> s.labels, mass |-> s.mass, dt |-> s.dt,
     t_units |-> s.t_units, s_units |-> s.s_units, m_units |-> s.m_units,
     limit |-> s.limit]

\* the frame of s is the one the constructor made of its arguments
FrameAsConstructed(s) ==
    /\ s.b_num = Len(args.dict_data)
    /\ s.labels = [i \in 1..s.b_num |-> i]
    /\ DOMAIN s.pos = 1..s.b_num
    /\ DOMAIN s.vel = 1..s.b_num
    /\ DOMAIN s.acc = 1..s.b_num
    /\ DOMAIN s.mass = 1..s.b_num
    /\ \A i \in 1..s.b_num :
           /\ s.mass[i] = NumOf(args.dict_data[i].f[MASS])
           /\ s.mass[i] # 0
    /\ s.t_units = T_UNITS[args.time_units]
    /\ s.s_units = S_UNITS[args.space_units]
    /\ s.m_units = M_UNITS[args.mass_units]

\* C13: update_accelerations, update_positions, update_velocities and an
\* advance (the three in order) leave the masses, the labels, the number of
\* bodies, the step size, the unit multipliers and the limit as they are, in
\* whatever order they are called and whether they succeed or raise; every
\* mass stays the nonzero value the constructor read for that index.
C13_FrameKept ==
    /\ [](\A ref \in 1..Len(heap) :
              LET s == heap[ref]
              IN  /\ FrameAsConstructed(s)
                  /\ Frame(update_accelerations(s).sys) = Frame(s)
                  /\ Frame(update_positions(s)) = Frame(s)
                  /\ Frame(update_velocities(s)) = Frame(s)
                  /\ Frame(StepTriad(s).sys) = Frame(s))
    /\ [][\A ref \in 1..Len(heap) :
              /\ ref \in 1..Len(heap')
              /\ Frame(heap'[ref]) = Frame(heap[ref])]_vars

C13_Witness ==
    /\ Len(heap) = 1
    /\ direct >= 3
    /\ lastOp = "update_velocities"
    /\ heap[1].b_num = 3
    /\ heap[1].limit = 2
    /\ \A i \in 1..3 :
           /\ heap[1].acc[i] # Zero
           /\ heap[1].pos[i] # ComplexOf(args.dict_data[i].f[POSITION])
           /\ heap[1].vel[i] # ComplexOf(args.dict_data[i].f[VELOCITY])
           /\ heap[1].mass[i] = NumOf(args.dict_data[i].f[MASS])

\* ------------------------------------------------------------------- C14
\* the positions the constructor read from its record
InitialPositions ==
    [i \in 1..Len(args.dict_data) |->
        ComplexOf(args.dict_data[i].f[POSITION])]

\* C14: with the history enabled, its first snapshot is the initial
\* positions and its last one the current positions; a successful advance
\* appends the positions it has just produced as snapshot number index, every
\* other operation appends nothing, and no snapshot already in a history is
\* ever changed or removed, the history of the system the iterator was made
\* from included.
C14_SnapshotsKept ==
    /\ [](\A ref \in 1..Len(heap) :
              LET s == heap[ref]
              IN  IF s.no_hist = FALSE
                  THEN /\ Len(s.hist) >= 1
                       /\ s.hist[1] = InitialPositions
                       /\ s.hist[Len(s.hist)] = s.pos
                       /\ (HasIterator /\ ref = it.system_of_bodies) =>
                              Len(s.hist) = it.index + 1
                  ELSE s.hist = <<>>)
    /\ [][\A ref \in 1..Len(heap) :
              LET h == heap[ref].hist
                  g == heap'[ref].hist
              IN  /\ Len(g) >= Len(h)
                  /\ \A k \in 1..Len(h) : g[k] = h[k]
                  /\ g # h =>
                         /\ HasIterator /\ ref = it.system_of_bodies
                         /\ lastOp' = "next" /\ outcome' = "ok"
                         /\ g = Append(h, heap'[ref].pos)
                         /\ Len(g) = it'.index + 1
                  /\ heap'[ref].pos # heap[ref].pos =>
                         (heap[ref].no_hist = FALSE => g # h)]_vars

C14_Witness ==
    /\ Stepped
    /\ it.index = 3
    /\ Working.no_hist = FALSE
    /\ Len(Working.hist) = 4
    /\ \A k, l \in 1..4 : k # l => Working.hist[k] # Working.hist[l]
    /\ Working.hist[1] = InitialPositions
    /\ Working.hist[4] = Working.pos
    /\ heap[1].hist = <<InitialPositions>>

\* ------------------------------------------------------------------- C15
\* the consumer has been given StopIteration
EndOfSequence == lastOp = "next" /\ outcome = "StopIteration"
\* the consumer has been given the RuntimeError of the force assembly
GeometryFailure == lastOp = "next" /\ outcome = "GeometryError"

\* C15 as stated: whoever keeps calling next(it) is given StopIteration in
\* the end.
C15_AlwaysEnds == HasIterator ~> EndOfSequence

\* C15: the index is 0 when the iterator is made, stays within 0..limit,
\* never decreases, grows by exactly 1 on a successful advance and stays as
\* it is on any other call; a consumer that keeps calling next(it) is in the
\* end given StopIteration or the error of two coinciding bodies, and after
\* that error every further call fails the same way with nothing changed,
\* so that StopIteration never comes.
C15_EndsOrFailsForEver ==
    /\ [](HasIterator => (it.index >= 0 /\ it.index <= Working.limit))
    /\ [](lastOp = "iter" => it.index = 0)
    /\ [](EndOfSequence => it.index = Working.limit)
    /\ [][/\ it'.index >= it.index
          /\ (lastOp' = "next" /\ outcome' = "ok" /\ HasIterator) =>
                 it'.index = it.index + 1
          /\ ~(lastOp' = "next" /\ outcome' = "ok") =>
                 it'.index = it.index
          /\ GeometryFailure =>
                 (GeometryFailure' /\ it' = it /\ heap' = heap)]_vars
    /\ HasIterator ~> (EndOfSequence \/ GeometryFailure)
    /\ (HasIterator /\ ~Coincide(Working)) ~>
           (EndOfSequence \/ (HasIterator /\ Coincide(Working)))

C15_Witness ==
    /\ HasIterator
    /\ Working.limit = 3
    /\ it.index = 2
    /\ results = <<"ok", "ok", "GeometryError", "GeometryError">>
    /\ GeometryFailure
====
